---- MODULE Spec2Model ----
(***************************************************************************)
(* Verification model of the thread_fast formula library: the bolted-joint *)
(* preload and margin-of-safety chain of nasa_tm_106943.py,                *)
(* nasa_std_5020b.py and nsts_08307a.py, the thread geometry of            *)
(* threads/iso_68_1998.py and threads/iso_724_1993.py, and the nut and     *)
(* load introduction factors of kubler_bulten_nut_factor.py and            *)
(* stiffness_based_load_introduction_factor.py.                            *)
(*                                                                         *)
(* Python floats are modelled as exact rationals in lowest terms           *)
(* ([n |-> numerator, d |-> denominator > 0]); rounding is not modelled.   *)
(* A call either returns a number, returns a pair, returns numpy.inf, or   *)
(* raises (AssertionError, ZeroDivisionError, NameError,                   *)
(* UnboundLocalError, TypeError).  Division of Python floats by 0.0 raises *)
(* ZeroDivisionError; division of a numpy.float64 by 0.0 gives inf, -inf   *)
(* or nan.                                                                 *)
(***************************************************************************)
EXTENDS Integers, Sequences, FiniteSets, TLC

VARIABLES pc, call, ret, stdout, mainLocals

vars == <<pc, call, ret, stdout, mainLocals>>

-----------------------------------------------------------------------------
(* Bounds of the input grids. *)

\* loads, torques and allowables range over the integers -MaxLoad..MaxLoad
MaxLoad == 2

\* dimensionless factors, diameters and nut factors range over the halves
\* -1/2, 0, 1/2, ..., MaxHalves/2
MaxHalves == 3

\* stiffness coefficients A, B, C, D range over the halves
\* 0, 1/2, ..., MaxCoefficient/2
MaxCoefficient == 12

\* the calls that print stop once the output stream holds MaxPrints lines
MaxPrints == 1
MaxLevels == 2

-----------------------------------------------------------------------------
(* Exact rational arithmetic standing for Python float arithmetic. *)

Abs(i) == IF i < 0 THEN -i ELSE i

RECURSIVE GCD(_, _)
GCD(a, b) == IF b = 0 THEN a ELSE GCD(b, a % b)

\* the rational n/d (d # 0) in lowest terms with a positive denominator
R(n, d) ==
    LET g == GCD(Abs(n), Abs(d))
        s == IF d < 0 THEN -1 ELSE 1
    IN  [n |-> (s * n) \div g, d |-> (s * d) \div g]

RI(i) == [n |-> i, d |-> 1]

Zero == RI(0)
One == RI(1)

RAdd(a, b) == R(a.n * b.d + b.n * a.d, a.d * b.d)
RSub(a, b) == R(a.n * b.d - b.n * a.d, a.d * b.d)
RMul(a, b) == R(a.n * b.n, a.d * b.d)
\* a / b for b # 0; the callers test the divisor first
RDiv(a, b) == R(a.n * b.d, a.d * b.n)

RLt(a, b) == a.n * b.d < b.n * a.d
RLe(a, b) == a.n * b.d <= b.n * a.d
RGt(a, b) == RLt(b, a)
RGe(a, b) == RLe(b, a)
RIsZero(a) == a.n = 0
RAbs(a) == [n |-> Abs(a.n), d |-> a.d]

-----------------------------------------------------------------------------
(* Outcomes of a call. *)

NoReturn == [kind |-> "none", val |-> Zero, val2 |-> Zero, exc |-> ""]
Value(v) == [kind |-> "value", val |-> v, val2 |-> Zero, exc |-> ""]
Pair(v, w) == [kind |-> "pair", val |-> v, val2 |-> w, exc |-> ""]
Inf == [kind |-> "inf", val |-> Zero, val2 |-> Zero, exc |-> ""]
\* a returned 3-tuple
Triple(u, v, w) == [kind |-> "triple", val |-> <<u, v, w>>, val2 |-> Zero, exc |-> ""]
Raise(e) == [kind |-> "raise", val |-> Zero, val2 |-> Zero, exc |-> e]

Returned(r) == r.kind \in {"value", "pair", "inf", "triple"}

\* allowable / divisor - 1.0, the common tail of the margin formulas
MarginOf(allowable, divisor) ==
    IF RIsZero(divisor) THEN Raise("ZeroDivisionError")
    ELSE Value(RSub(RDiv(allowable, divisor), One))

-----------------------------------------------------------------------------
(* Input grids. *)

Loads == {RI(i) : i \in -MaxLoad .. MaxLoad}
Factors == {R(i, 2) : i \in -1 .. MaxHalves}
Phis == {R(1, 4), R(1, 2)}
Torques == {RI(i) : i \in 1 .. MaxLoad}
Coefficients == {R(i, 2) : i \in 0 .. MaxCoefficient}
\* friction coefficients, and the diameters and radii of the nut factors
Frictions == {R(-1, 2), Zero, R(1, 2)}
Diameters == {RI(-1), Zero, RI(1)}
Radii == {RI(-1), RI(1)}
\* angles in units of pi rad: the lead angles 0 and pi/4, the half angles
\* 0, pi/3 and 2*pi/3
LeadAngles == {Zero, R(1, 4)}
HalfAngles == {Zero, R(1, 3), R(2, 3)}

-----------------------------------------------------------------------------
(* nasa_tm_106943.py *)

\* eq1: returns the tuple (P_0_min, P_0_max)
tm_eq1(T, K, D, u) ==
    IF ~RGt(T, Zero) THEN Raise("AssertionError")
    ELSE IF ~RGt(K, Zero) THEN Raise("AssertionError")
    ELSE IF ~RGt(D, Zero) THEN Raise("AssertionError")
    ELSE IF ~RGe(u, Zero) THEN Raise("AssertionError")
    ELSE LET P_0 == RDiv(T, RMul(K, D))
             P_0_max == RMul(P_0, RAdd(One, u))
             P_0_min == RMul(P_0, RSub(One, u))
         IN  Pair(P_0_min, P_0_max)

tm_eq11_OfUnreducedPreload(P_0_min, relaxation_ratio) == Value(RMul(relaxation_ratio, RMul(P_0_min, RAdd(One, relaxation_ratio))))

tm_eq11(P_0_min, relaxation_ratio) == Value(RMul(relaxation_ratio, P_0_min))

tm_eq12(T, K, D, u, P_th) ==
    IF ~RGt(K, Zero) THEN Raise("AssertionError")
    ELSE IF ~RGt(D, Zero) THEN Raise("AssertionError")
    ELSE Value(RAdd(RMul(RDiv(T, RMul(K, D)), RAdd(One, u)), P_th))

tm_eq13(T, D, K, u, P_th, P_relax) ==
    IF ~RGt(K, Zero) THEN Raise("AssertionError")
    ELSE IF ~RGt(D, Zero) THEN Raise("AssertionError")
    ELSE Value(RSub(RSub(RMul(RDiv(T, RMul(K, D)), RSub(One, u)), P_th), P_relax))

tm_eq13mod(T, D, K, u, P_th, relaxation_ratio) ==
    IF ~RGt(K, Zero) THEN Raise("AssertionError")
    ELSE IF ~RGt(D, Zero) THEN Raise("AssertionError")
    ELSE IF RIsZero(RAdd(One, relaxation_ratio)) THEN Raise("ZeroDivisionError")
    ELSE Value(RDiv(RSub(RMul(RDiv(T, RMul(K, D)), RSub(One, u)), P_th),
                    RAdd(One, relaxation_ratio)))

tm_eq14(T, K, D) ==
    IF ~RGt(K, Zero) THEN Raise("AssertionError")
    ELSE IF ~RGt(D, Zero) THEN Raise("AssertionError")
    ELSE Value(RMul(RDiv(T, RMul(K, D)), R(125, 100)))

\* eq15: line 388 reads the local P_0_min before any assignment to it, so
\* the statement raises and the closed form of line 391 is never reached
tm_eq15(T, K, D, relaxation_ratio) ==
    IF ~RGt(K, Zero) THEN Raise("AssertionError")
    ELSE IF ~RGt(D, Zero) THEN Raise("AssertionError")
    ELSE Raise("UnboundLocalError")

tm_eq16(T, K, D) ==
    IF ~RGt(K, Zero) THEN Raise("AssertionError")
    ELSE IF ~RGt(D, Zero) THEN Raise("AssertionError")
    ELSE Value(RMul(RDiv(T, RMul(K, D)), R(714, 1000)))

\* eq17: the chained comparison 0.0 >= n >= 1.0 is (0.0 >= n) and (n >= 1.0)
tm_eq17(P_0_max, SF, n, phi, P_et) ==
    IF ~RGe(SF, One) THEN Raise("AssertionError")
    ELSE IF ~(RGe(Zero, n) /\ RGe(n, One)) THEN Raise("AssertionError")
    ELSE Value(RAdd(P_0_max, RMul(RMul(RMul(SF, n), phi), P_et)))

tm_eq53(tensile_allowable, P_b) == MarginOf(tensile_allowable, P_b)

tm_eq54(V, shear_allowable, SF) == MarginOf(shear_allowable, RMul(SF, V))

tm_eq65(P_ult, P_b) == MarginOf(P_ult, P_b)

tm_eq67(n, phi, P_et) == Value(RMul(RSub(One, RMul(n, phi)), P_et))

tm_eq68(P_0_min, P_sep, SF) ==
    IF ~RGe(SF, One) THEN Raise("AssertionError")
    ELSE MarginOf(P_0_min, RMul(SF, P_sep))

tm_eq71(P_ult, SF, V) ==
    IF ~RGe(SF, One) THEN Raise("AssertionError")
    ELSE IF ~RGe(V, Zero) THEN Raise("AssertionError")
    ELSE MarginOf(P_ult, RMul(SF, V))

tm_eq74(P_br, SF, V) ==
    IF ~RGe(SF, One) THEN Raise("AssertionError")
    ELSE IF ~RGe(V, Zero) THEN Raise("AssertionError")
    ELSE MarginOf(P_br, RMul(SF, V))

tm_eq80(P_ult, P_b) == MarginOf(P_ult, P_b)

-----------------------------------------------------------------------------
(* nasa_std_5020b.py *)

std_eq6(P_tu_allow, FS_u, P_tL, FF) ==
    IF ~RGe(FF, One) THEN Raise("AssertionError")
    ELSE IF ~RGe(FS_u, One) THEN Raise("AssertionError")
    ELSE MarginOf(P_tu_allow, RMul(RMul(FF, FS_u), P_tL))

std_eq7(P_prime_tu, FS_u, P_tL, FF) ==
    IF ~RGe(FF, One) THEN Raise("AssertionError")
    ELSE IF ~RGe(FS_u, One) THEN Raise("AssertionError")
    ELSE MarginOf(P_prime_tu, RMul(RMul(FF, FS_u), P_tL))

std_eq8(P_p, n, phi, P_t) ==
    IF ~(RLe(Zero, n) /\ RLe(n, One)) THEN Raise("AssertionError")
    ELSE Value(RAdd(P_p, RMul(RMul(n, phi), P_t)))

std_eq14(P_su_allow, FS_u, P_sL, FF) ==
    IF ~RGe(FS_u, One) THEN Raise("AssertionError")
    ELSE IF ~RGe(FF, One) THEN Raise("AssertionError")
    ELSE IF RIsZero(P_sL) THEN Inf
    ELSE MarginOf(P_su_allow, RMul(RMul(FF, FS_u), P_sL))

std_eq15(P_ty_allow, FS_y, P_tL, FF) ==
    IF ~RGe(FS_y, One) THEN Raise("AssertionError")
    ELSE IF ~RGe(FF, One) THEN Raise("AssertionError")
    ELSE IF RIsZero(P_tL) THEN Inf
    ELSE MarginOf(P_ty_allow, RMul(RMul(FF, FS_y), P_tL))

std_eq16(P_prime_ty, FS_y, P_tL, FF) ==
    IF ~RGe(FS_y, One) THEN Raise("AssertionError")
    ELSE IF ~RGe(FF, One) THEN Raise("AssertionError")
    ELSE IF RIsZero(P_tL) THEN Inf
    ELSE MarginOf(P_prime_ty, RMul(RMul(FF, FS_y), P_tL))

\* eq19: the parameter is SF_sep (SFsep here), the body reads FS_sep, a name bound
\* neither in the function nor in the module
std_eq19(P_p_min, SFsep, P_tL, FF) ==
    IF ~RGe(FF, One) THEN Raise("AssertionError")
    ELSE Raise("NameError")

-----------------------------------------------------------------------------
(* nsts_08307a.py *)

nsts_bolt_axial_load_for_strength(PLD_max, n, phi, SF, P) ==
    IF ~RGe(SF, One) THEN Raise("AssertionError")
    ELSE IF ~(RLe(Zero, n) /\ RLe(n, One)) THEN Raise("AssertionError")
    ELSE Value(RAdd(PLD_max, RMul(RMul(n, phi), RMul(SF, P))))

nsts_shear_margin(VA, SF, V) ==
    IF ~RGe(SF, One) THEN Raise("AssertionError")
    ELSE MarginOf(VA, RMul(SF, V))

nsts_bending_margin(MA, SF, M) ==
    IF ~RGe(SF, One) THEN Raise("AssertionError")
    ELSE MarginOf(MA, RMul(SF, M))

nsts_joint_separation_load(P, SFsep) ==
    IF ~RGe(SFsep, One) THEN Raise("AssertionError")
    ELSE Value(RMul(P, SFsep))

nsts_joint_separation_margin_of_safety(PLD_min, n, phi) ==
    IF ~(RLe(Zero, n) /\ RLe(n, One)) THEN Raise("AssertionError")
    ELSE MarginOf(PLD_min, RSub(One, RMul(n, phi)))

\* the separation margin of an analysis whose external load is P and whose
\* separation safety factor is SFsep (SF_sep): joint_separation_margin_of_safety
\* takes neither, only (PLD_min, n, phi)
nsts_separation_margin(PLD_min, n, phi, P, SFsep) ==
    nsts_joint_separation_margin_of_safety(PLD_min, n, phi)

-----------------------------------------------------------------------------
(* nasa_tm_106943.py: eq68 applied to the result of eq67 *)

tm_separation_margin(P_0_min, n, phi, P_et, SF) ==
    LET P_sep == tm_eq67(n, phi, P_et)
    IN  IF P_sep.kind = "value" THEN tm_eq68(P_0_min, P_sep.val, SF) ELSE P_sep

-----------------------------------------------------------------------------
(* nasa_tm_106943.py: main() *)

Line(text) == [text |-> text, num |-> <<>>]
LineNum(text, v) == [text |-> text, num |-> <<v>>]

\* the locals main() sets before it calls eq1
main_T == RI(10)
main_K == R(2, 10)
main_pitch == R(8, 10)
main_D == RI(5)
main_u == R(25, 100)

\* main() up to the statement that ends it: the tuple eq1 returns is
\* unpacked as "P0max, P0min = eq1(...)", then D_p = (D_major + D_minor) / 2.0
\* reads two names that are bound nowhere
main_run ==
    LET r == tm_eq1(main_T, main_K, main_D, main_u)
        head == <<LineNum("pitch = ", main_pitch), Line("\nTest eq1:")>>
    IN  IF r.kind = "pair"
        THEN [locals |-> [pc |-> "raised", P0max |-> <<r.val>>, P0min |-> <<r.val2>>,
                          exc |-> "NameError"],
              out |-> head \o <<LineNum("P0max = ", r.val), LineNum("P0min = ", r.val2)>>]
        ELSE [locals |-> [pc |-> "raised", P0max |-> <<>>, P0min |-> <<>>, exc |-> r.exc],
              out |-> head]

-----------------------------------------------------------------------------
(* Stiffness factor: nasa_std_5020b.eq9 and nasa_tm_106943.eq29. *)

std_eq9(k_b, k_c) ==
    IF ~RGt(k_b, Zero) THEN Raise("AssertionError")
    ELSE IF ~RGt(k_c, Zero) THEN Raise("AssertionError")
    ELSE Value(RDiv(k_b, RAdd(k_b, k_c)))

\* the share of the joint, K_j / (K_b + K_j), in place of the bolt's
tm_eq29_JointShare(K_b, K_j) ==
    IF RIsZero(RAdd(K_b, K_j)) THEN Raise("ZeroDivisionError")
    ELSE Value(RDiv(K_j, RAdd(K_b, K_j)))

\* eq29 has no assertion: only K_b + K_j = 0.0 stops it
tm_eq29(K_b, K_j) ==
    IF RIsZero(RAdd(K_b, K_j)) THEN Raise("ZeroDivisionError")
    ELSE Value(RDiv(K_b, RAdd(K_b, K_j)))

-----------------------------------------------------------------------------
(* Geometric load introduction factor: nasa_std_5020b.eq37 and eq57. *)

std_eq37(L_lp, L) ==
    IF ~RGe(L_lp, Zero) THEN Raise("AssertionError")
    ELSE IF ~RGt(L, Zero) THEN Raise("AssertionError")
    ELSE LET n == RDiv(L_lp, L)
         IN  IF ~RGe(n, Zero) THEN Raise("AssertionError")
             ELSE IF ~RLe(n, One) THEN Raise("AssertionError")
             ELSE Value(n)

\* eq57 has no assertion on L, nor on the sign of l4 and l2
std_eq57(l4, l2, L) ==
    IF ~RGe(l4, l2) THEN Raise("AssertionError")
    ELSE IF RIsZero(L) THEN Raise("ZeroDivisionError")
    ELSE LET n_G == RDiv(RSub(l4, l2), L)
         IN  IF ~RGe(n_G, Zero) THEN Raise("AssertionError")
             ELSE IF ~RLe(n_G, One) THEN Raise("AssertionError")
             ELSE Value(n_G)

-----------------------------------------------------------------------------
(* Stiffness based load introduction factor: nasa_std_5020b.eq48 and eq52, *)
(* stiffness_based_load_introduction_factor.py.                            *)

std_eq48(B, C) ==
    IF RIsZero(RMul(B, C)) THEN Raise("ZeroDivisionError")
    ELSE Value(RDiv(RAdd(B, C), RMul(B, C)))

\* (A + D) / (A * D) without the complement to 1.0
std_eq52_Uncomplemented(A, D) ==
    IF RIsZero(RMul(A, D)) THEN Raise("ZeroDivisionError")
    ELSE Value(RDiv(RAdd(A, D), RMul(A, D)))

std_eq52(A, D) ==
    IF RIsZero(RMul(A, D)) THEN Raise("ZeroDivisionError")
    ELSE Value(RSub(One, RDiv(RAdd(A, D), RMul(A, D))))

stiffness_based_load_introduction_factor(B, C) ==
    IF RIsZero(RMul(B, C)) THEN Raise("ZeroDivisionError")
    ELSE Value(RDiv(RAdd(B, C), RMul(B, C)))

-----------------------------------------------------------------------------
(* Joint configuration 1: nasa_tm_106943.eq31 and eq35. *)

\* l_1 + l_2 + ... : the literal ... is the Ellipsis object, and adding it
\* to the float l_1 + l_2 raises TypeError for every argument
tm_eq31(l_1, l_2, l_n) == Raise("TypeError")

\* (l_1 / 2.0 + l_2 + ... : the same addition of Ellipsis to a float
tm_eq35(l_1, l_2, l_n) == Raise("TypeError")

-----------------------------------------------------------------------------
(* Numbers a + b*sqrt(3) with rational a and b: the values that eq_H makes *)
(* of a rational pitch.  numpy.sqrt(3.0) is kept exact, as the rationals   *)
(* are.                                                                    *)

Surd(a, b) == [a |-> a, b |-> b]
SurdOf(r) == Surd(r, Zero)
SurdSub(x, y) == Surd(RSub(x.a, y.a), RSub(x.b, y.b))
\* r * x for a rational r
SurdScale(r, x) == Surd(RMul(r, x.a), RMul(r, x.b))
\* a + b*sqrt(3) > 0: by the signs of a and b, and by a^2 against 3*b^2
\* where the signs differ
SurdPos(x) ==
    LET a2 == RMul(x.a, x.a)
        b2 == RMul(RI(3), RMul(x.b, x.b))
    IN  \/ RGt(x.a, Zero) /\ RGe(x.b, Zero)
        \/ RGe(x.a, Zero) /\ RGt(x.b, Zero)
        \/ RGt(x.a, Zero) /\ RLt(x.b, Zero) /\ RGt(a2, b2)
        \/ RLt(x.a, Zero) /\ RGt(x.b, Zero) /\ RGt(b2, a2)
SurdLt(x, y) == SurdPos(SurdSub(y, x))

\* the Python object None, for an argument left out
None == [none |-> TRUE]

\* the pitch and the height of a call: a float or None
Pitches == Factors \cup {None}
Heights == {SurdOf(r) : r \in Factors} \cup {None}

-----------------------------------------------------------------------------
(* threads/iso_68_1998.py and threads/iso_724_1993.py *)

\* H = (sqrt(3.0) / 2.0) * P
iso_eq_H(P) ==
    IF ~RGt(P, Zero) THEN Raise("AssertionError")
    ELSE Value(SurdScale(P, Surd(Zero, R(1, 2))))

iso_eq_D_2(D, H, P) ==
    IF H = None
    THEN IF P = None THEN Raise("AssertionError")
         ELSE LET h == iso_eq_H(P)
              IN  IF ~Returned(h) THEN h
                  ELSE Value(SurdSub(SurdOf(D), SurdScale(R(3, 4), h.val)))
    ELSE Value(SurdSub(SurdOf(D), SurdScale(R(3, 4), H)))

iso_eq_d_2(d, H, P) ==
    IF H = None
    THEN IF P = None THEN Raise("AssertionError")
         ELSE LET h == iso_eq_H(P)
              IN  IF ~Returned(h) THEN h
                  ELSE Value(SurdSub(SurdOf(d), SurdScale(R(3, 4), h.val)))
    ELSE Value(SurdSub(SurdOf(d), SurdScale(R(3, 4), H)))

iso_eq_D_1(D, H, P) ==
    IF H = None
    THEN IF P = None THEN Raise("AssertionError")
         ELSE LET h == iso_eq_H(P)
              IN  IF ~Returned(h) THEN h
                  ELSE Value(SurdSub(SurdOf(D), SurdScale(R(5, 4), h.val)))
    ELSE Value(SurdSub(SurdOf(D), SurdScale(R(5, 4), H)))

\* the minor diameter put at the pitch diameter, d - (3/4)*H
iso_eq_d_1_AtPitchDiameter(d, H, P) == iso_eq_d_2(d, H, P)

iso_eq_d_1(d, H, P) ==
    IF H = None
    THEN IF P = None THEN Raise("AssertionError")
         ELSE LET h == iso_eq_H(P)
              IN  IF ~Returned(h) THEN h
                  ELSE Value(SurdSub(SurdOf(d), SurdScale(R(5, 4), h.val)))
    ELSE Value(SurdSub(SurdOf(d), SurdScale(R(5, 4), H)))

-----------------------------------------------------------------------------
(* Nut factor: kubler_bulten_nut_factor.py and nsts_08307a.nut_factor. *)

\* numpy.tan and numpy.cos at the angles of the grids (in units of pi rad),
\* where their values are rational
np_tan(x) ==
    CASE x = Zero -> Zero
      [] x = R(1, 4) -> One
np_cos(x) ==
    CASE x = Zero -> One
      [] x = R(1, 3) -> R(1, 2)
      [] x = R(2, 3) -> R(-1, 2)

\* numpy.float64 / 0.0 raises nothing: it is inf, -inf or nan, written here
\* 1/0, -1/0 and 0/0
NpDiv(x, y) ==
    IF RIsZero(y)
    THEN [n |-> IF RGt(x, Zero) THEN 1 ELSE IF RLt(x, Zero) THEN -1 ELSE 0, d |-> 0]
    ELSE RDiv(x, y)

\* K = (0.16*P + 0.58*d_2 * mu_t + 0.5* d_w * mu_b) / (d + P), Python floats
kubler_bulten_nut_factor(P, d_2, mu_t, mu_b, d_w, d) ==
    IF RIsZero(RAdd(d, P)) THEN Raise("ZeroDivisionError")
    ELSE Value(RDiv(RAdd(RAdd(RMul(R(16, 100), P),
                              RMul(RMul(R(58, 100), d_2), mu_t)),
                         RMul(RMul(R(1, 2), d_w), mu_b)),
                    RAdd(d, P)))

\* the three nut factors in the order (K_typ, K_min, K_max)
nsts_nut_factor_TypicalFirst(R_t, R_e, mu_t_min, mu_t_typ, mu_t_max, mu_b_min, mu_b_typ, mu_b_max, alpha, beta, D) ==
    LET K(mu_t, mu_b) ==
            NpDiv(RAdd(RMul(R_t, RAdd(np_tan(alpha), RDiv(mu_t, np_cos(beta)))),
                       RMul(R_e, mu_b)),
                  D)
    IN  Triple(K(mu_t_typ, mu_b_typ), K(mu_t_min, mu_b_min), K(mu_t_max, mu_b_max))

\* nut_factor has no assertion; its quotients are numpy.float64 quotients
nsts_nut_factor(R_t, R_e, mu_t_min, mu_t_typ, mu_t_max, mu_b_min, mu_b_typ, mu_b_max, alpha, beta, D) ==
    LET K_typ == NpDiv(RAdd(RMul(R_t, RAdd(np_tan(alpha),
                                           RDiv(mu_t_typ, np_cos(beta)))),
                            RMul(R_e, mu_b_typ)),
                       D)
        K_min == NpDiv(RAdd(RMul(R_t, RAdd(np_tan(alpha),
                                           RDiv(mu_t_min, np_cos(beta)))),
                            RMul(R_e, mu_b_min)),
                       D)
        K_max == NpDiv(RAdd(RMul(R_t, RAdd(np_tan(alpha),
                                           RDiv(mu_t_max, np_cos(beta)))),
                            RMul(R_e, mu_b_max)),
                       D)
    IN  Triple(K_min, K_typ, K_max)

-----------------------------------------------------------------------------
(* Legacy combined loading margins: nasa_tm_106943.eq59 and eq62. *)

\* the integer square root
ISqrt(i) == CHOOSE k \in 0 .. i : k * k <= i /\ (k + 1) * (k + 1) > i

\* (1.0 / np.sqrt(x)) - 1.0 as numpy computes it: nan for x < 0, inf for
\* x = 0 (numpy.float64 division), the rational 1/r - 1 where x = r^2 for a
\* rational r, and otherwise the irrational number 1/sqrt(x) - 1, kept as
\* the record of its radicand
sqrt_margin(x) ==
    IF RLt(x, Zero) THEN Value(NpDiv(Zero, Zero))
    ELSE IF RIsZero(x) THEN Value(NpDiv(One, Zero))
    ELSE IF ISqrt(x.n) * ISqrt(x.n) = x.n /\ ISqrt(x.d) * ISqrt(x.d) = x.d
    THEN Value(RSub(RDiv(One, R(ISqrt(x.n), ISqrt(x.d))), One))
    ELSE Value([one_over_sqrt_less_one |-> x])

\* the line eq59 and eq62 print
tm_deprecated ==
    Line("warning: deprecated, see updated criteria based on NASA-TM-2012-217454...")

\* MS = (1.0 / np.sqrt(R_t**2 + R_s**3)) - 1.0
tm_eq59(R_t, R_s) ==
    sqrt_margin(RAdd(RMul(R_t, R_t), RMul(R_s, RMul(R_s, R_s))))

\* MS = (1.0 / np.sqrt((R_t + R_b)**2 + R_s**3)) - 1.0
tm_eq62(R_t, R_b, R_s) ==
    sqrt_margin(RAdd(RMul(RAdd(R_t, R_b), RAdd(R_t, R_b)),
                     RMul(R_s, RMul(R_s, R_s))))

-----------------------------------------------------------------------------
(* Predicted preload: nsts_08307a.max_preload and min_preload. *)

\* the line both functions print when the experimental nut factor is given
nsts_experimental == Line("using experimental coefficient method...")

\* the experimental value replaces the typical one when K_min is given;
\* K_min itself is not tested
nsts_max_preload(gamma, T_max, K_typ, D, P_thr_pos, K_min) ==
    IF ~RGe(gamma, Zero) THEN Raise("AssertionError")
    ELSE IF ~RGt(D, Zero) THEN Raise("AssertionError")
    ELSE IF ~RGt(K_typ, Zero) THEN Raise("AssertionError")
    ELSE IF ~RGe(P_thr_pos, Zero) THEN Raise("AssertionError")
    ELSE IF K_min = None
    THEN Value(RAdd(RDiv(RMul(RAdd(One, gamma), T_max), RMul(K_typ, D)), P_thr_pos))
    ELSE IF RIsZero(RMul(K_min, D)) THEN Raise("ZeroDivisionError")
    ELSE Value(RAdd(RDiv(T_max, RMul(K_min, D)), P_thr_pos))

nsts_min_preload(gamma, T_min, K_typ, T_p, D, P_thr_neg, relaxation_ratio, P_loss, K_max) ==
    IF ~RGe(gamma, Zero) THEN Raise("AssertionError")
    ELSE IF ~RGt(D, Zero) THEN Raise("AssertionError")
    ELSE IF ~RGt(K_typ, Zero) THEN Raise("AssertionError")
    ELSE IF ~RLe(P_thr_neg, Zero) THEN Raise("AssertionError")
    ELSE IF ~RGe(relaxation_ratio, Zero) THEN Raise("AssertionError")
    ELSE IF K_max # None /\ RIsZero(RMul(K_max, D)) THEN Raise("ZeroDivisionError")
    ELSE LET nominal ==
                 IF K_max = None
                 THEN RDiv(RMul(RSub(One, gamma), RSub(T_min, T_p)), RMul(K_typ, D))
                 ELSE RDiv(RSub(T_min, T_p), RMul(K_max, D))
         IN  IF P_loss # None
             THEN Value(RSub(RAdd(nominal, P_thr_neg), P_loss))
             ELSE Value(RDiv(RAdd(nominal, P_thr_neg), RAdd(One, relaxation_ratio)))

-----------------------------------------------------------------------------
(* Predicted preload: nasa_std_5020b.eq1 and eq2. *)

std_eq1(P_pi_max, P_deltat_max) ==
    IF ~RGe(P_deltat_max, Zero) THEN Raise("AssertionError")
    ELSE Value(RAdd(P_pi_max, P_deltat_max))

std_eq2(P_pi_min, P_pr, P_deltat_min, P_pc) ==
    IF ~RGe(P_deltat_min, Zero) THEN Raise("AssertionError")
    ELSE IF ~RGe(P_pr, Zero) THEN Raise("AssertionError")
    ELSE IF ~RGe(P_pc, Zero) THEN Raise("AssertionError")
    ELSE Value(RSub(RSub(RSub(P_pi_min, P_pr), P_pc), P_deltat_min))

\* eq30: the same chained comparison as eq17 guards the bolt-load increment
tm_eq30(n, phi, P_et) ==
    IF ~(RGe(Zero, n) /\ RGe(n, One)) THEN Raise("AssertionError")
    ELSE Value(RMul(RMul(n, phi), P_et))

\* eq10: 1.0 / (n * phi) divides Python floats, so n * phi = 0 raises
std_eq10(n, phi, P_tu_allow, P_p_max) ==
    IF ~(RLe(Zero, n) /\ RLe(n, One)) THEN Raise("AssertionError")
    ELSE IF RIsZero(RMul(n, phi)) THEN Raise("ZeroDivisionError")
    ELSE Value(RMul(RDiv(One, RMul(n, phi)), RSub(P_tu_allow, P_p_max)))

std_eq17(n, phi, P_ty_allow, P_p_max) ==
    IF ~(RLe(Zero, n) /\ RLe(n, One)) THEN Raise("AssertionError")
    ELSE IF RIsZero(RMul(n, phi)) THEN Raise("ZeroDivisionError")
    ELSE Value(RMul(RDiv(One, RMul(n, phi)), RSub(P_ty_allow, P_p_max)))

\* Arguments of eq87: a Python list or a numpy array of cycle counts, of at
\* most MaxLevels stress levels; the cycles to failure are all positive.
SeqsOf(S) == UNION {[1 .. k -> S] : k \in 0 .. MaxLevels}
CyclesApplied == {[type |-> t, items |-> s] : t \in {"list", "ndarray"}, s \in SeqsOf({Zero} \cup Torques)}
CyclesToFailure == {[type |-> t, items |-> s] : t \in {"list", "ndarray"}, s \in SeqsOf(Torques)}

\* numpy broadcasting of two one-dimensional shapes: equal, or one of them 1
np_broadcastable(la, lb) == la = lb \/ la = 1 \/ lb = 1

np_divide(a, b) ==
    LET At(s, i) == IF Len(s) = 1 THEN s[1] ELSE s[i]
        len == IF Len(a) = 1 THEN Len(b) ELSE Len(a)
    IN  [i \in 1 .. len |-> RDiv(At(a, i), At(b, i))]

RECURSIVE np_sum(_)
np_sum(s) == IF s = <<>> THEN Zero ELSE RAdd(Head(s), np_sum(Tail(s)))

\* eq87: `n_i / N_i` is evaluated first; a list has no `/`, so two lists
\* raise TypeError, while a numpy array on either side divides elementwise
std_eq87(n_i, N_i) ==
    IF n_i.type = "list" /\ N_i.type = "list" THEN Raise("TypeError")
    ELSE IF ~np_broadcastable(Len(n_i.items), Len(N_i.items)) THEN Raise("ValueError")
    ELSE Value(np_sum(np_divide(n_i.items, N_i.items)))

\* np.pi * x / np.log(y): np.log of a negative number is nan and of zero is
\* -inf (the quotient is then a zero), a zero logarithm divides as numpy
\* does, and every other value is the irrational pi*x/ln(y), kept as the
\* record of x and y
np_pi_over_log(x, y) ==
    IF RLt(y, Zero) THEN NpDiv(Zero, Zero)
    ELSE IF RIsZero(y) THEN Zero
    ELSE IF y = One THEN NpDiv(x, Zero)
    ELSE [pi_times |-> x, over_log_of |-> y]

\* eq44: the inner quotient divides Python floats
tm_eq44(E_j, D, L) ==
    LET upper == RAdd(RMul(RI(2), L), RMul(R(1, 2), D))
        lower == RAdd(RMul(RI(2), L), RMul(R(5, 2), D))
    IN  IF RIsZero(lower) THEN Raise("ZeroDivisionError")
        ELSE Value(np_pi_over_log(RMul(E_j, D), RMul(RI(5), RDiv(upper, lower))))

tm_eq49(E_j, D, L, d_w) ==
    LET upper == RMul(RSub(RAdd(L, d_w), D), RAdd(d_w, D))
        lower == RMul(RAdd(RAdd(L, d_w), D), RSub(d_w, D))
    IN  IF ~RGt(E_j, Zero) THEN Raise("AssertionError")
        ELSE IF ~RGt(D, Zero) THEN Raise("AssertionError")
        ELSE IF ~RGt(L, Zero) THEN Raise("AssertionError")
        ELSE IF ~RGt(d_w, Zero) THEN Raise("AssertionError")
        ELSE IF RIsZero(lower) THEN Raise("ZeroDivisionError")
        ELSE Value(np_pi_over_log(RMul(E_j, D), RDiv(upper, lower)))

-----------------------------------------------------------------------------
(* State machine: a caller makes one call at a time. *)

NoCall == [fn |-> "none", args |-> [none |-> TRUE]]

MainReady == [pc |-> "ready", P0max |-> <<>>, P0min |-> <<>>, exc |-> ""]

Init ==
    /\ pc = "idle"
    /\ call = NoCall
    /\ ret = NoReturn
    /\ stdout = <<>>
    /\ mainLocals = MainReady

\* a call of the function fn with the arguments args that ends in result
Invoke(fn, args, result) ==
    /\ pc = "idle"
    /\ call' = [fn |-> fn, args |-> args]
    /\ ret' = result
    /\ pc' = "returned"
    /\ UNCHANGED <<stdout, mainLocals>>

\* a call that prints the line text before it ends in result
InvokePrinting(fn, args, result, text) ==
    /\ pc = "idle"
    /\ Len(stdout) < MaxPrints
    /\ call' = [fn |-> fn, args |-> args]
    /\ ret' = result
    /\ pc' = "returned"
    /\ stdout' = Append(stdout, text)
    /\ UNCHANGED mainLocals

\* the caller goes on to its next statement
Return ==
    /\ pc = "returned"
    /\ pc' = "idle"
    /\ call' = NoCall
    /\ ret' = NoReturn
    /\ UNCHANGED <<stdout, mainLocals>>

\* python nasa_tm_106943.py: main() runs once and its exception ends the process
Main ==
    /\ pc = "idle"
    /\ mainLocals.pc = "ready"
    /\ mainLocals' = main_run.locals
    /\ stdout' = stdout \o main_run.out
    /\ call' = [fn |-> "tm_main", args |-> [none |-> TRUE]]
    /\ ret' = Raise(main_run.locals.exc)
    /\ pc' = "exited"

-----------------------------------------------------------------------------
(* One action per function: the caller picks the arguments. *)

Call_tm_eq1 ==
    /\ pc = "idle"
    /\ \E T \in Loads, K, D, u \in Factors :
           Invoke("tm_eq1",
                  [T |-> T, K |-> K, D |-> D, u |-> u],
                  tm_eq1(T, K, D, u))

Call_tm_eq12 ==
    /\ pc = "idle"
    /\ \E T \in Torques, K, D, u \in Factors, P_th \in Loads :
           Invoke("tm_eq12",
                  [T |-> T, K |-> K, D |-> D, u |-> u, P_th |-> P_th],
                  tm_eq12(T, K, D, u, P_th))

Call_tm_eq13 ==
    /\ pc = "idle"
    /\ \E T \in Torques, D, K, u \in Factors, P_th \in Loads, P_relax \in Factors :
           Invoke("tm_eq13",
                  [T |-> T, D |-> D, K |-> K, u |-> u, P_th |-> P_th, P_relax |-> P_relax],
                  tm_eq13(T, D, K, u, P_th, P_relax))

Call_tm_eq13mod ==
    /\ pc = "idle"
    /\ \E T \in Torques, D, K, u \in Factors, P_th \in Loads, relaxation_ratio \in Factors :
           Invoke("tm_eq13mod",
                  [T |-> T, D |-> D, K |-> K, u |-> u, P_th |-> P_th, relaxation_ratio |-> relaxation_ratio],
                  tm_eq13mod(T, D, K, u, P_th, relaxation_ratio))

Call_tm_eq14 ==
    /\ pc = "idle"
    /\ \E T \in Loads, K, D \in Factors :
           Invoke("tm_eq14",
                  [T |-> T, K |-> K, D |-> D],
                  tm_eq14(T, K, D))

Call_tm_eq15 ==
    /\ pc = "idle"
    /\ \E T \in Loads, K, D, relaxation_ratio \in Factors :
           Invoke("tm_eq15",
                  [T |-> T, K |-> K, D |-> D, relaxation_ratio |-> relaxation_ratio],
                  tm_eq15(T, K, D, relaxation_ratio))

Call_tm_eq16 ==
    /\ pc = "idle"
    /\ \E T \in Loads, K, D \in Factors :
           Invoke("tm_eq16",
                  [T |-> T, K |-> K, D |-> D],
                  tm_eq16(T, K, D))

Call_tm_eq17 ==
    /\ pc = "idle"
    /\ \E P_0_max \in Loads, SF, n \in Factors, phi \in Phis, P_et \in Loads :
           Invoke("tm_eq17",
                  [P_0_max |-> P_0_max, SF |-> SF, n |-> n, phi |-> phi, P_et |-> P_et],
                  tm_eq17(P_0_max, SF, n, phi, P_et))

Call_tm_eq53 ==
    /\ pc = "idle"
    /\ \E tensile_allowable, P_b \in Loads :
           Invoke("tm_eq53",
                  [tensile_allowable |-> tensile_allowable, P_b |-> P_b],
                  tm_eq53(tensile_allowable, P_b))

Call_tm_eq54 ==
    /\ pc = "idle"
    /\ \E V, shear_allowable \in Loads, SF \in Factors :
           Invoke("tm_eq54",
                  [V |-> V, shear_allowable |-> shear_allowable, SF |-> SF],
                  tm_eq54(V, shear_allowable, SF))

Call_tm_eq65 ==
    /\ pc = "idle"
    /\ \E P_ult, P_b \in Loads :
           Invoke("tm_eq65",
                  [P_ult |-> P_ult, P_b |-> P_b],
                  tm_eq65(P_ult, P_b))

Call_tm_separation_margin ==
    /\ pc = "idle"
    /\ \E P_0_min \in Loads, n \in Factors, phi \in Phis, P_et \in Loads, SF \in Factors :
           Invoke("tm_separation_margin",
                  [P_0_min |-> P_0_min, n |-> n, phi |-> phi, P_et |-> P_et, SF |-> SF],
                  tm_separation_margin(P_0_min, n, phi, P_et, SF))

Call_tm_eq71 ==
    /\ pc = "idle"
    /\ \E P_ult \in Loads, SF \in Factors, V \in Loads :
           Invoke("tm_eq71",
                  [P_ult |-> P_ult, SF |-> SF, V |-> V],
                  tm_eq71(P_ult, SF, V))

Call_tm_eq74 ==
    /\ pc = "idle"
    /\ \E P_br \in Loads, SF \in Factors, V \in Loads :
           Invoke("tm_eq74",
                  [P_br |-> P_br, SF |-> SF, V |-> V],
                  tm_eq74(P_br, SF, V))

Call_tm_eq80 ==
    /\ pc = "idle"
    /\ \E P_ult, P_b \in Loads :
           Invoke("tm_eq80",
                  [P_ult |-> P_ult, P_b |-> P_b],
                  tm_eq80(P_ult, P_b))

Call_std_eq6 ==
    /\ pc = "idle"
    /\ \E P_tu_allow \in Loads, FS_u \in Factors, P_tL \in Loads, FF \in Factors :
           Invoke("std_eq6",
                  [P_tu_allow |-> P_tu_allow, FS_u |-> FS_u, P_tL |-> P_tL, FF |-> FF],
                  std_eq6(P_tu_allow, FS_u, P_tL, FF))

Call_std_eq7 ==
    /\ pc = "idle"
    /\ \E P_prime_tu \in Loads, FS_u \in Factors, P_tL \in Loads, FF \in Factors :
           Invoke("std_eq7",
                  [P_prime_tu |-> P_prime_tu, FS_u |-> FS_u, P_tL |-> P_tL, FF |-> FF],
                  std_eq7(P_prime_tu, FS_u, P_tL, FF))

Call_std_eq14 ==
    /\ pc = "idle"
    /\ \E P_su_allow \in Loads, FS_u \in Factors, P_sL \in Loads, FF \in Factors :
           Invoke("std_eq14",
                  [P_su_allow |-> P_su_allow, FS_u |-> FS_u, P_sL |-> P_sL, FF |-> FF],
                  std_eq14(P_su_allow, FS_u, P_sL, FF))

Call_std_eq15 ==
    /\ pc = "idle"
    /\ \E P_ty_allow \in Loads, FS_y \in Factors, P_tL \in Loads, FF \in Factors :
           Invoke("std_eq15",
                  [P_ty_allow |-> P_ty_allow, FS_y |-> FS_y, P_tL |-> P_tL, FF |-> FF],
                  std_eq15(P_ty_allow, FS_y, P_tL, FF))

Call_std_eq16 ==
    /\ pc = "idle"
    /\ \E P_prime_ty \in Loads, FS_y \in Factors, P_tL \in Loads, FF \in Factors :
           Invoke("std_eq16",
                  [P_prime_ty |-> P_prime_ty, FS_y |-> FS_y, P_tL |-> P_tL, FF |-> FF],
                  std_eq16(P_prime_ty, FS_y, P_tL, FF))

Call_std_eq19 ==
    /\ pc = "idle"
    /\ \E P_p_min \in Loads, SFsep \in Factors, P_tL \in Loads, FF \in Factors :
           Invoke("std_eq19",
                  [P_p_min |-> P_p_min, SFsep |-> SFsep, P_tL |-> P_tL, FF |-> FF],
                  std_eq19(P_p_min, SFsep, P_tL, FF))

Call_nsts_bolt_axial_load_for_strength ==
    /\ pc = "idle"
    /\ \E PLD_max \in Loads, n \in Factors, phi \in Phis, SF \in Factors, P \in Loads :
           Invoke("nsts_bolt_axial_load_for_strength",
                  [PLD_max |-> PLD_max, n |-> n, phi |-> phi, SF |-> SF, P |-> P],
                  nsts_bolt_axial_load_for_strength(PLD_max, n, phi, SF, P))

Call_nsts_shear_margin ==
    /\ pc = "idle"
    /\ \E VA \in Loads, SF \in Factors, V \in Loads :
           Invoke("nsts_shear_margin",
                  [VA |-> VA, SF |-> SF, V |-> V],
                  nsts_shear_margin(VA, SF, V))

Call_nsts_bending_margin ==
    /\ pc = "idle"
    /\ \E MA \in Loads, SF \in Factors, M \in Loads :
           Invoke("nsts_bending_margin",
                  [MA |-> MA, SF |-> SF, M |-> M],
                  nsts_bending_margin(MA, SF, M))

Call_nsts_separation_margin ==
    /\ pc = "idle"
    /\ \E PLD_min \in Loads, n \in Factors, phi \in Phis, P \in Loads, SFsep \in Factors :
           Invoke("nsts_separation_margin",
                  [PLD_min |-> PLD_min, n |-> n, phi |-> phi, P |-> P, SFsep |-> SFsep],
                  nsts_separation_margin(PLD_min, n, phi, P, SFsep))

Call_std_eq9 ==
    /\ pc = "idle"
    /\ \E k_b, k_c \in Loads :
           Invoke("std_eq9", [k_b |-> k_b, k_c |-> k_c], std_eq9(k_b, k_c))

Call_tm_eq29 ==
    /\ pc = "idle"
    /\ \E K_b, K_j \in Loads :
           Invoke("tm_eq29", [K_b |-> K_b, K_j |-> K_j], tm_eq29(K_b, K_j))

Call_std_eq37 ==
    /\ pc = "idle"
    /\ \E L_lp, L \in Loads :
           Invoke("std_eq37", [L_lp |-> L_lp, L |-> L], std_eq37(L_lp, L))

Call_std_eq57 ==
    /\ pc = "idle"
    /\ \E l4, l2, L \in Loads :
           Invoke("std_eq57", [l4 |-> l4, l2 |-> l2, L |-> L], std_eq57(l4, l2, L))

Call_std_eq48 ==
    /\ pc = "idle"
    /\ \E B, C \in Coefficients :
           Invoke("std_eq48", [B |-> B, C |-> C], std_eq48(B, C))

Call_std_eq52 ==
    /\ pc = "idle"
    /\ \E A, D \in Coefficients :
           Invoke("std_eq52", [A |-> A, D |-> D], std_eq52(A, D))

Call_stiffness_based_load_introduction_factor ==
    /\ pc = "idle"
    /\ \E B, C \in Coefficients :
           Invoke("stiffness_based_load_introduction_factor",
                  [B |-> B, C |-> C],
                  stiffness_based_load_introduction_factor(B, C))

Call_tm_eq31 ==
    /\ pc = "idle"
    /\ \E l_1, l_2, l_n \in Loads :
           Invoke("tm_eq31", [l_1 |-> l_1, l_2 |-> l_2, l_n |-> l_n],
                  tm_eq31(l_1, l_2, l_n))

Call_tm_eq35 ==
    /\ pc = "idle"
    /\ \E l_1, l_2, l_n \in Loads :
           Invoke("tm_eq35", [l_1 |-> l_1, l_2 |-> l_2, l_n |-> l_n],
                  tm_eq35(l_1, l_2, l_n))

Call_iso_eq_H ==
    /\ pc = "idle"
    /\ \E P \in Factors : Invoke("iso_eq_H", [P |-> P], iso_eq_H(P))

Call_iso_eq_D_2 ==
    /\ pc = "idle"
    /\ \E D \in Loads, H \in Heights, P \in Pitches :
           Invoke("iso_eq_D_2", [D |-> D, H |-> H, P |-> P], iso_eq_D_2(D, H, P))

Call_iso_eq_d_2 ==
    /\ pc = "idle"
    /\ \E d \in Loads, H \in Heights, P \in Pitches :
           Invoke("iso_eq_d_2", [d |-> d, H |-> H, P |-> P], iso_eq_d_2(d, H, P))

Call_iso_eq_D_1 ==
    /\ pc = "idle"
    /\ \E D \in Loads, H \in Heights, P \in Pitches :
           Invoke("iso_eq_D_1", [D |-> D, H |-> H, P |-> P], iso_eq_D_1(D, H, P))

Call_iso_eq_d_1 ==
    /\ pc = "idle"
    /\ \E d \in Loads, H \in Heights, P \in Pitches :
           Invoke("iso_eq_d_1", [d |-> d, H |-> H, P |-> P], iso_eq_d_1(d, H, P))

Call_kubler_bulten_nut_factor ==
    /\ pc = "idle"
    /\ \E P, d_2 \in Diameters, mu_t, mu_b \in Frictions, d_w, d \in Diameters :
           Invoke("kubler_bulten_nut_factor",
                  [P |-> P, d_2 |-> d_2, mu_t |-> mu_t, mu_b |-> mu_b,
                   d_w |-> d_w, d |-> d],
                  kubler_bulten_nut_factor(P, d_2, mu_t, mu_b, d_w, d))

Call_nsts_nut_factor ==
    /\ pc = "idle"
    /\ \E R_t, R_e \in Radii, mu_t_min, mu_t_typ, mu_t_max \in Frictions,
          mu_b_min, mu_b_typ, mu_b_max \in Frictions,
          alpha \in LeadAngles, beta \in HalfAngles, D \in Diameters :
           Invoke("nsts_nut_factor",
                  [R_t |-> R_t, R_e |-> R_e,
                   mu_t_min |-> mu_t_min, mu_t_typ |-> mu_t_typ,
                   mu_t_max |-> mu_t_max,
                   mu_b_min |-> mu_b_min, mu_b_typ |-> mu_b_typ,
                   mu_b_max |-> mu_b_max,
                   alpha |-> alpha, beta |-> beta, D |-> D],
                  nsts_nut_factor(R_t, R_e, mu_t_min, mu_t_typ, mu_t_max,
                                  mu_b_min, mu_b_typ, mu_b_max, alpha, beta, D))

Call_tm_eq59 ==
    /\ pc = "idle"
    /\ \E R_t, R_s \in Factors :
           InvokePrinting("tm_eq59", [R_t |-> R_t, R_s |-> R_s],
                          tm_eq59(R_t, R_s), tm_deprecated)

Call_tm_eq62 ==
    /\ pc = "idle"
    /\ \E R_t, R_b, R_s \in Factors :
           InvokePrinting("tm_eq62", [R_t |-> R_t, R_b |-> R_b, R_s |-> R_s],
                          tm_eq62(R_t, R_b, R_s), tm_deprecated)

\* max_preload prints once its assertions have passed and K_min is given
Call_nsts_max_preload ==
    /\ pc = "idle"
    /\ \E gamma \in Frictions, T_max \in Torques, K_typ \in Diameters, D \in Radii,
          P_thr_pos \in Diameters, K_min \in Frictions \cup {None} :
           LET args == [gamma |-> gamma, T_max |-> T_max, K_typ |-> K_typ, D |-> D,
                        P_thr_pos |-> P_thr_pos, K_min |-> K_min]
               r == nsts_max_preload(gamma, T_max, K_typ, D, P_thr_pos, K_min)
           IN  IF K_min # None /\ r # Raise("AssertionError")
               THEN InvokePrinting("nsts_max_preload", args, r, nsts_experimental)
               ELSE Invoke("nsts_max_preload", args, r)

\* min_preload prints once its assertions have passed and K_max is given
Call_nsts_min_preload ==
    /\ pc = "idle"
    /\ \E gamma \in Frictions, T_min \in Torques, K_typ \in Diameters,
          T_p \in Diameters, D \in Radii, P_thr_neg \in Diameters,
          relaxation_ratio \in Frictions, P_loss \in Diameters \cup {None},
          K_max \in Diameters \cup {None} :
           LET args == [gamma |-> gamma, T_min |-> T_min, K_typ |-> K_typ,
                        T_p |-> T_p, D |-> D, P_thr_neg |-> P_thr_neg,
                        relaxation_ratio |-> relaxation_ratio,
                        P_loss |-> P_loss, K_max |-> K_max]
               r == nsts_min_preload(gamma, T_min, K_typ, T_p, D, P_thr_neg,
                                     relaxation_ratio, P_loss, K_max)
           IN  IF K_max # None /\ r # Raise("AssertionError")
               THEN InvokePrinting("nsts_min_preload", args, r, nsts_experimental)
               ELSE Invoke("nsts_min_preload", args, r)

Call_std_eq1 ==
    /\ pc = "idle"
    /\ \E P_pi_max \in Loads, P_deltat_max \in Diameters :
           Invoke("std_eq1", [P_pi_max |-> P_pi_max, P_deltat_max |-> P_deltat_max],
                  std_eq1(P_pi_max, P_deltat_max))

Call_std_eq2 ==
    /\ pc = "idle"
    /\ \E P_pi_min \in Loads, P_pr, P_deltat_min, P_pc \in Diameters :
           Invoke("std_eq2",
                  [P_pi_min |-> P_pi_min, P_pr |-> P_pr,
                   P_deltat_min |-> P_deltat_min, P_pc |-> P_pc],
                  std_eq2(P_pi_min, P_pr, P_deltat_min, P_pc))

Call_tm_eq30 ==
    /\ pc = "idle"
    /\ \E n \in Factors, phi \in Phis, P_et \in Loads :
           Invoke("tm_eq30", [n |-> n, phi |-> phi, P_et |-> P_et], tm_eq30(n, phi, P_et))

Call_std_eq10 ==
    /\ pc = "idle"
    /\ \E n \in Factors, phi \in Phis, P_tu_allow, P_p_max \in Loads :
           Invoke("std_eq10",
                  [n |-> n, phi |-> phi, P_tu_allow |-> P_tu_allow, P_p_max |-> P_p_max],
                  std_eq10(n, phi, P_tu_allow, P_p_max))

Call_std_eq17 ==
    /\ pc = "idle"
    /\ \E n \in Factors, phi \in Phis, P_ty_allow, P_p_max \in Loads :
           Invoke("std_eq17",
                  [n |-> n, phi |-> phi, P_ty_allow |-> P_ty_allow, P_p_max |-> P_p_max],
                  std_eq17(n, phi, P_ty_allow, P_p_max))

Call_std_eq87 ==
    /\ pc = "idle"
    /\ \E n_i \in CyclesApplied, N_i \in CyclesToFailure :
           Invoke("std_eq87", [n_i |-> n_i, N_i |-> N_i], std_eq87(n_i, N_i))

Call_tm_eq44 ==
    /\ pc = "idle"
    /\ \E E_j, D, L \in Loads :
           Invoke("tm_eq44", [E_j |-> E_j, D |-> D, L |-> L], tm_eq44(E_j, D, L))

Call_tm_eq49 ==
    /\ pc = "idle"
    /\ \E E_j, D, L, d_w \in Loads :
           Invoke("tm_eq49", [E_j |-> E_j, D |-> D, L |-> L, d_w |-> d_w],
                  tm_eq49(E_j, D, L, d_w))

Next ==
    \/ Main
    \/ Return
    \/ Call_tm_eq1
    \/ Call_tm_eq12
    \/ Call_tm_eq13
    \/ Call_tm_eq13mod
    \/ Call_tm_eq14
    \/ Call_tm_eq15
    \/ Call_tm_eq16
    \/ Call_tm_eq17
    \/ Call_tm_eq53
    \/ Call_tm_eq54
    \/ Call_tm_eq65
    \/ Call_tm_separation_margin
    \/ Call_tm_eq71
    \/ Call_tm_eq74
    \/ Call_tm_eq80
    \/ Call_std_eq6
    \/ Call_std_eq7
    \/ Call_std_eq14
    \/ Call_std_eq15
    \/ Call_std_eq16
    \/ Call_std_eq19
    \/ Call_nsts_bolt_axial_load_for_strength
    \/ Call_nsts_shear_margin
    \/ Call_nsts_bending_margin
    \/ Call_nsts_separation_margin
    \/ Call_std_eq9
    \/ Call_tm_eq29
    \/ Call_std_eq37
    \/ Call_std_eq57
    \/ Call_std_eq48
    \/ Call_std_eq52
    \/ Call_stiffness_based_load_introduction_factor
    \/ Call_tm_eq31
    \/ Call_tm_eq35
    \/ Call_iso_eq_H
    \/ Call_iso_eq_D_2
    \/ Call_iso_eq_d_2
    \/ Call_iso_eq_D_1
    \/ Call_iso_eq_d_1
    \/ Call_kubler_bulten_nut_factor
    \/ Call_nsts_nut_factor
    \/ Call_tm_eq59
    \/ Call_tm_eq62
    \/ Call_nsts_max_preload
    \/ Call_nsts_min_preload
    \/ Call_std_eq1
    \/ Call_std_eq2
    \/ Call_tm_eq30
    \/ Call_std_eq10
    \/ Call_std_eq17
    \/ Call_std_eq87
    \/ Call_tm_eq44
    \/ Call_tm_eq49

Spec == Init /\ [][Next]_vars

-----------------------------------------------------------------------------
(* Properties. *)

\* the function fn has been called and the call has ended
Called(fn) == pc = "returned" /\ call.fn = fn

InUnit(n) == RLe(Zero, n) /\ RLe(n, One)

\* C1: for SF >= 1 and 0 <= n <= 1 the strength-case bolt load operations
\* (nasa_tm_106943.eq17, nsts_08307a.bolt_axial_load_for_strength) return
\* P_0_max + n*phi*(SF*P_et): the safety factor multiplies the external load
\* only, never the preload.
C1_StrengthLoadScalesExternalLoadOnly ==
    /\ (Called("tm_eq17") /\ RGe(call.args.SF, One) /\ InUnit(call.args.n))
          => ret = Value(RAdd(call.args.P_0_max,
                              RMul(RMul(call.args.n, call.args.phi),
                                   RMul(call.args.SF, call.args.P_et))))
    /\ (Called("nsts_bolt_axial_load_for_strength")
          /\ RGe(call.args.SF, One) /\ InUnit(call.args.n))
          => ret = Value(RAdd(call.args.PLD_max,
                              RMul(RMul(call.args.n, call.args.phi),
                                   RMul(call.args.SF, call.args.P))))

\* the margin operations of the form allowable/(FF*SF*load) - 1, and the
\* arguments of the call in the roles of that form
GeneralMargins ==
    {"std_eq6", "std_eq7", "std_eq14", "std_eq15", "std_eq16",
     "tm_eq54", "tm_eq71", "tm_eq74"}

MarginAllowable ==
    CASE call.fn = "std_eq6" -> call.args.P_tu_allow
      [] call.fn = "std_eq7" -> call.args.P_prime_tu
      [] call.fn = "std_eq14" -> call.args.P_su_allow
      [] call.fn = "std_eq15" -> call.args.P_ty_allow
      [] call.fn = "std_eq16" -> call.args.P_prime_ty
      [] call.fn = "std_eq19" -> call.args.P_p_min
      [] call.fn = "tm_eq53" -> call.args.tensile_allowable
      [] call.fn = "tm_eq54" -> call.args.shear_allowable
      [] call.fn \in {"tm_eq65", "tm_eq71", "tm_eq80"} -> call.args.P_ult
      [] call.fn = "tm_eq74" -> call.args.P_br
      [] call.fn = "tm_separation_margin" -> call.args.P_0_min
      [] call.fn = "nsts_shear_margin" -> call.args.VA
      [] call.fn = "nsts_bending_margin" -> call.args.MA

MarginLoad ==
    CASE call.fn \in {"std_eq6", "std_eq7", "std_eq15", "std_eq16", "std_eq19"}
            -> call.args.P_tL
      [] call.fn = "std_eq14" -> call.args.P_sL
      [] call.fn \in {"tm_eq54", "tm_eq71", "tm_eq74", "nsts_shear_margin"}
            -> call.args.V
      [] call.fn \in {"tm_eq53", "tm_eq65", "tm_eq80"} -> call.args.P_b
      [] call.fn = "nsts_bending_margin" -> call.args.M

MarginSafetyFactor ==
    CASE call.fn \in {"std_eq6", "std_eq7", "std_eq14"} -> call.args.FS_u
      [] call.fn \in {"std_eq15", "std_eq16"} -> call.args.FS_y
      [] call.fn = "std_eq19" -> call.args.SFsep
      [] OTHER -> call.args.SF

MarginFittingFactor ==
    IF call.fn \in {"std_eq6", "std_eq7", "std_eq14", "std_eq15", "std_eq16",
                    "std_eq19"}
    THEN call.args.FF ELSE One

\* C2: every margin operation of the general form returns +infinity when the
\* limit load is exactly 0, for SF >= 1, FF >= 1 and allowable > 0; none
\* raises a division error or returns another value.
C2_ZeroLoadGivesInfiniteMargin ==
    (pc = "returned" /\ call.fn \in GeneralMargins
       /\ RIsZero(MarginLoad)
       /\ RGe(MarginSafetyFactor, One) /\ RGe(MarginFittingFactor, One)
       /\ RGt(MarginAllowable, Zero))
    => ret = Inf

\* C3: every margin operation that takes a safety factor or a fitting factor
\* raises, and returns no margin, when the safety factor is < 1 or the
\* fitting factor is < 1.
C3_FactorBelowOneIsRejected ==
    (pc = "returned"
       /\ call.fn \in GeneralMargins \cup
             {"std_eq19", "tm_separation_margin", "nsts_shear_margin",
              "nsts_bending_margin"}
       /\ (RLt(MarginSafetyFactor, One) \/ RLt(MarginFittingFactor, One)))
    => ~Returned(ret)

\* C4: every margin operation raises, and returns no number, when its
\* allowable argument is zero or negative.
C4_NonPositiveAllowableIsRejected ==
    (pc = "returned"
       /\ call.fn \in {"std_eq6", "std_eq14", "std_eq15",
                       "tm_eq53", "tm_eq54", "tm_eq65", "tm_eq80"}
       /\ RLe(MarginAllowable, Zero))
    => ~Returned(ret)

\* T / (K * D) of the call, for K * D # 0
NominalPreload == RDiv(call.args.T, RMul(call.args.K, call.args.D))

\* C5: for T > 0, K > 0, D > 0 and 0 <= u < 1, eq1 yields the minimum
\* preload T/(K*D)*(1-u) <= the maximum preload T/(K*D)*(1+u) and the two
\* reach the caller in the order (minimum, maximum): what a caller (main)
\* holds as the maximum preload is never below what it holds as the minimum.
C5_CallerHoldsMinBelowMax ==
    /\ (Called("tm_eq1")
          /\ RGt(call.args.T, Zero) /\ RGt(call.args.K, Zero)
          /\ RGt(call.args.D, Zero)
          /\ RGe(call.args.u, Zero) /\ RLt(call.args.u, One))
          => /\ ret = Pair(RMul(NominalPreload, RSub(One, call.args.u)),
                           RMul(NominalPreload, RAdd(One, call.args.u)))
             /\ RLe(ret.val, ret.val2)
    /\ (mainLocals.P0max # <<>> /\ mainLocals.P0min # <<>>)
          => RGe(mainLocals.P0max[1], mainLocals.P0min[1])

\* C6: every preload-prediction operation of nasa_tm_106943 raises, and
\* returns no preload, when K <= 0, D <= 0, u < 0 or relaxation_ratio < 0.
C6_InvalidPreloadInputIsRejected ==
    /\ (pc = "returned"
          /\ call.fn \in {"tm_eq1", "tm_eq12", "tm_eq13", "tm_eq13mod",
                          "tm_eq14", "tm_eq15", "tm_eq16"}
          /\ (RLe(call.args.K, Zero) \/ RLe(call.args.D, Zero)))
          => ~Returned(ret)
    /\ (pc = "returned"
          /\ call.fn \in {"tm_eq1", "tm_eq12", "tm_eq13", "tm_eq13mod"}
          /\ RLt(call.args.u, Zero))
          => ~Returned(ret)
    /\ (pc = "returned"
          /\ call.fn \in {"tm_eq13mod", "tm_eq15"}
          /\ RLt(call.args.relaxation_ratio, Zero))
          => ~Returned(ret)

\* C7: for K > 0, D > 0, relaxation_ratio >= 0 and a thermal load P_th of
\* either sign, eq13mod returns
\* (T/(K*D)*(1-u) - |P_th|) / (1 + relaxation_ratio), which never exceeds
\* T/(K*D)*(1-u) / (1 + relaxation_ratio).
C7_ThermalTermEntersByAbsoluteValue ==
    (Called("tm_eq13mod")
       /\ RGt(call.args.K, Zero) /\ RGt(call.args.D, Zero)
       /\ RGe(call.args.relaxation_ratio, Zero))
    => LET base == RMul(NominalPreload, RSub(One, call.args.u))
           den == RAdd(One, call.args.relaxation_ratio)
       IN  /\ ret = Value(RDiv(RSub(base, RAbs(call.args.P_th)), den))
           /\ RLe(ret.val, RDiv(base, den))

\* C8: for all T and K > 0, D > 0, eq15 returns the closed form
\* (T/(K*D)*0.75) / (1 + relaxation_ratio) and never raises.
C8_Eq15ReturnsClosedForm ==
    (Called("tm_eq15")
       /\ RGt(call.args.K, Zero) /\ RGt(call.args.D, Zero)
       /\ RGe(call.args.relaxation_ratio, Zero))
    => ret = Value(RDiv(RMul(NominalPreload, R(75, 100)),
                        RAdd(One, call.args.relaxation_ratio)))

\* SF * (1 - n*phi) * P, the divisor of the separation margin
SeparationDivisor(SF, n, phi, P) ==
    RMul(SF, RMul(RSub(One, RMul(n, phi)), P))

\* C9: every joint-separation margin is P_min / (SF * P_sep) - 1 with
\* P_sep = (1 - n*phi) * P_ext: eq68 applied to the result of eq67 returns
\* P_0_min / (SF*(1 - n*phi)*P_et) - 1, and
\* nsts_08307a.joint_separation_margin_of_safety depends on the external
\* load and its separation safety factor in the same way.
C9_SeparationMarginUsesSeparationLoad ==
    /\ (Called("tm_separation_margin") /\ RGe(call.args.SF, One)
          /\ ~RIsZero(SeparationDivisor(call.args.SF, call.args.n,
                                        call.args.phi, call.args.P_et)))
          => ret = Value(RSub(RDiv(call.args.P_0_min,
                                   SeparationDivisor(call.args.SF, call.args.n,
                                                     call.args.phi, call.args.P_et)),
                              One))
    /\ (Called("nsts_separation_margin") /\ RGe(call.args.SFsep, One)
          /\ InUnit(call.args.n)
          /\ ~RIsZero(SeparationDivisor(call.args.SFsep, call.args.n,
                                        call.args.phi, call.args.P)))
          => ret = Value(RSub(RDiv(call.args.PLD_min,
                                   SeparationDivisor(call.args.SFsep, call.args.n,
                                                     call.args.phi, call.args.P)),
                              One))

\* C10: for FF >= 1, SF_sep >= 1 and P_tL > 0, nasa_std_5020b.eq19 returns
\* P_p_min / (FF * SF_sep * P_tL) - 1, using the SF_sep it was given.
C10_Eq19UsesGivenSeparationFactor ==
    (Called("std_eq19")
       /\ RGe(call.args.FF, One) /\ RGe(call.args.SFsep, One)
       /\ RGt(call.args.P_tL, Zero))
    => ret = Value(RSub(RDiv(call.args.P_p_min,
                             RMul(RMul(call.args.FF, call.args.SFsep),
                                  call.args.P_tL)),
                        One))

-----------------------------------------------------------------------------
(* Stiffness factor. *)

InOpenUnit(x) == RLt(Zero, x) /\ RLt(x, One)

\* C11: for k_b > 0 and k_j > 0 both stiffness-factor operations
\* (nasa_std_5020b.eq9, nasa_tm_106943.eq29) return phi = k_b/(k_b + k_j),
\* phi lies strictly between 0 and 1, and each returns what the other returns
\* for the same inputs.
C11_StiffnessFactorInOpenUnit ==
    /\ (Called("std_eq9") /\ RGt(call.args.k_b, Zero) /\ RGt(call.args.k_c, Zero))
          => /\ ret = Value(RDiv(call.args.k_b, RAdd(call.args.k_b, call.args.k_c)))
             /\ InOpenUnit(ret.val)
             /\ ret = tm_eq29(call.args.k_b, call.args.k_c)
    /\ (Called("tm_eq29") /\ RGt(call.args.K_b, Zero) /\ RGt(call.args.K_j, Zero))
          => /\ ret = Value(RDiv(call.args.K_b, RAdd(call.args.K_b, call.args.K_j)))
             /\ InOpenUnit(ret.val)
             /\ ret = std_eq9(call.args.K_b, call.args.K_j)

\* eq29 has returned 1/3 for K_b = 1, K_j = 2
C11_Witness ==
    /\ Called("tm_eq29")
    /\ call.args.K_b = RI(1)
    /\ call.args.K_j = RI(2)
    /\ ret = Value(R(1, 3))

\* C12: eq9 and eq29 fail without returning phi when the bolt stiffness or
\* the joint stiffness is <= 0, and neither ever returns a phi outside (0,1).
C12_NonPositiveStiffnessIsRejected ==
    /\ (Called("std_eq9") /\ (RLe(call.args.k_b, Zero) \/ RLe(call.args.k_c, Zero)))
          => ~Returned(ret)
    /\ (Called("tm_eq29") /\ (RLe(call.args.K_b, Zero) \/ RLe(call.args.K_j, Zero)))
          => ~Returned(ret)
    /\ ((Called("std_eq9") \/ Called("tm_eq29")) /\ Returned(ret))
          => InOpenUnit(ret.val)

-----------------------------------------------------------------------------
(* Load introduction factor. *)

\* C13: any value returned by nasa_std_5020b.eq37 (n = L_lp/L) or eq57
\* (n_G = (l4 - l2)/L) lies in [0, 1]; for L_lp > L, l4 - l2 > L, a negative
\* length or L <= 0 the operation fails with its assertion instead of
\* returning.
C13_LoadIntroductionFactorIsValidated ==
    /\ ((Called("std_eq37") \/ Called("std_eq57")) /\ Returned(ret))
          => InUnit(ret.val)
    /\ (Called("std_eq37")
          /\ (\/ RGt(call.args.L_lp, call.args.L)
              \/ RLt(call.args.L_lp, Zero)
              \/ RLe(call.args.L, Zero)))
          => ret = Raise("AssertionError")
    /\ (Called("std_eq57")
          /\ (\/ RGt(RSub(call.args.l4, call.args.l2), call.args.L)
              \/ RLt(call.args.l4, Zero)
              \/ RLt(call.args.l2, Zero)
              \/ RLe(call.args.L, Zero)))
          => ret = Raise("AssertionError")

\* the constraint on the four stiffness coefficients: all positive and
\* 1/A + 1/B + 1/C + 1/D = 1
CoefficientsOfOneJoint(A, B, C, D) ==
    /\ RGt(A, Zero) /\ RGt(B, Zero) /\ RGt(C, Zero) /\ RGt(D, Zero)
    /\ RAdd(RAdd(RDiv(One, A), RDiv(One, B)),
            RAdd(RDiv(One, C), RDiv(One, D))) = One

-----------------------------------------------------------------------------
(* Joint configuration 1. *)

\* C15: for positive segment lengths l_1, l_2, l_n, nasa_tm_106943.eq31
\* returns the clamped length l_1 + l_2 + l_n and eq35 returns the loading
\* plane factor (l_1/2 + l_2 + l_n/2) / (l_1 + l_2 + l_n), which lies in
\* [0, 1].
C15_Configuration1ReturnsValues ==
    LET l_1 == call.args.l_1
        l_2 == call.args.l_2
        l_n == call.args.l_n
        L == RAdd(RAdd(l_1, l_2), l_n)
        positive == RGt(l_1, Zero) /\ RGt(l_2, Zero) /\ RGt(l_n, Zero)
    IN  /\ (Called("tm_eq31") /\ positive) => ret = Value(L)
        /\ (Called("tm_eq35") /\ positive)
              => /\ ret = Value(RDiv(RAdd(RAdd(RDiv(l_1, RI(2)), l_2),
                                          RDiv(l_n, RI(2))),
                                     L))
                 /\ InUnit(ret.val)

-----------------------------------------------------------------------------
(* Thread geometry. *)

\* the height the called iso_724 operation works with: the H passed, or
\* eq_H of the pitch when H is left out
IsoHeight ==
    IF call.args.H = None THEN iso_eq_H(call.args.P).val ELSE call.args.H

\* the call has a positive height, passed or derived from a positive pitch
IsoPositiveHeight ==
    IF call.args.H = None
    THEN call.args.P # None /\ RGt(call.args.P, Zero)
    ELSE SurdPos(call.args.H)

\* C16: for d > 0 and P > 0 the minor diameter eq_d_1(d, H) = d - (5/4)*H is
\* strictly below the pitch diameter eq_d_2(d, H) = d - (3/4)*H, which is
\* strictly below d, where H = eq_H(P) > 0; the ordering is the same whether
\* H is passed or derived from P.
C16_MinorBelowPitchBelowMajor ==
    /\ (Called("iso_eq_d_1") /\ RGt(call.args.d, Zero) /\ IsoPositiveHeight)
          => LET d_2 == iso_eq_d_2(call.args.d, call.args.H, call.args.P)
             IN  /\ SurdPos(IsoHeight)
                 /\ ret = Value(SurdSub(SurdOf(call.args.d),
                                        SurdScale(R(5, 4), IsoHeight)))
                 /\ ret = iso_eq_d_1(call.args.d, IsoHeight, call.args.P)
                 /\ Returned(d_2)
                 /\ SurdLt(ret.val, d_2.val)
                 /\ SurdLt(d_2.val, SurdOf(call.args.d))
    /\ (Called("iso_eq_d_2") /\ RGt(call.args.d, Zero) /\ IsoPositiveHeight)
          => LET d_1 == iso_eq_d_1(call.args.d, call.args.H, call.args.P)
             IN  /\ ret = Value(SurdSub(SurdOf(call.args.d),
                                        SurdScale(R(3, 4), IsoHeight)))
                 /\ ret = iso_eq_d_2(call.args.d, IsoHeight, call.args.P)
                 /\ Returned(d_1)
                 /\ SurdLt(d_1.val, ret.val)
                 /\ SurdLt(ret.val, SurdOf(call.args.d))

\* eq_d_1 has returned 2 - (5/8)*sqrt(3) for d = 2 and the pitch 1, H left out
C16_Witness ==
    /\ Called("iso_eq_d_1")
    /\ call.args.d = RI(2)
    /\ call.args.H = None
    /\ call.args.P = RI(1)
    /\ ret = Value(Surd(RI(2), R(-5, 8)))

\* C17: every geometry operation fails without returning a dimension when
\* the diameter or the pitch is <= 0: iso_724 eq_d_1, eq_d_2, eq_D_1, eq_D_2
\* reject a diameter <= 0, a height <= 0 that is passed, and a pitch <= 0 that
\* the height is derived from.
C17_NonPositiveGeometryIsRejected ==
    /\ (pc = "returned" /\ call.fn \in {"iso_eq_d_1", "iso_eq_d_2"}
          /\ (RLe(call.args.d, Zero) \/ ~IsoPositiveHeight))
          => ~Returned(ret)
    /\ (pc = "returned" /\ call.fn \in {"iso_eq_D_1", "iso_eq_D_2"}
          /\ (RLe(call.args.D, Zero) \/ ~IsoPositiveHeight))
          => ~Returned(ret)

-----------------------------------------------------------------------------
(* Nut factor. *)

\* C18: every nut-factor operation (kubler_bulten_nut_factor,
\* nsts_08307a.nut_factor) fails without returning K when a friction
\* coefficient is < 0 or when the diameter is <= 0.
C18_InvalidNutFactorInputIsRejected ==
    /\ (Called("kubler_bulten_nut_factor")
          /\ (\/ RLt(call.args.mu_t, Zero)
              \/ RLt(call.args.mu_b, Zero)
              \/ RLe(call.args.d, Zero)))
          => ~Returned(ret)
    /\ (Called("nsts_nut_factor")
          /\ (\/ \E mu \in {call.args.mu_t_min, call.args.mu_t_typ,
                            call.args.mu_t_max, call.args.mu_b_min,
                            call.args.mu_b_typ, call.args.mu_b_max} :
                     RLt(mu, Zero)
              \/ RLe(call.args.D, Zero)))
          => ~Returned(ret)

\* the formula of the nut factor for one friction pair and the other
\* arguments of the call
NutFactorOf(mu_t, mu_b) ==
    RDiv(RAdd(RMul(call.args.R_t,
                   RAdd(np_tan(call.args.alpha),
                        RDiv(mu_t, np_cos(call.args.beta)))),
              RMul(call.args.R_e, mu_b)),
         call.args.D)

\* C19: nsts_08307a.nut_factor returns the triple in the order
\* (K_min, K_typ, K_max), each computed by the same formula from its own
\* friction pair, and K_min <= K_typ <= K_max whenever
\* mu_t_min <= mu_t_typ <= mu_t_max, mu_b_min <= mu_b_typ <= mu_b_max,
\* R_t > 0, R_e > 0, D > 0 and the half angle beta is in [0, 90 deg).
C19_NutFactorTripleIsOrdered ==
    Called("nsts_nut_factor") =>
        /\ ~RIsZero(call.args.D)
              => ret = Triple(NutFactorOf(call.args.mu_t_min, call.args.mu_b_min),
                              NutFactorOf(call.args.mu_t_typ, call.args.mu_b_typ),
                              NutFactorOf(call.args.mu_t_max, call.args.mu_b_max))
        /\ (/\ RLe(call.args.mu_t_min, call.args.mu_t_typ)
            /\ RLe(call.args.mu_t_typ, call.args.mu_t_max)
            /\ RLe(call.args.mu_b_min, call.args.mu_b_typ)
            /\ RLe(call.args.mu_b_typ, call.args.mu_b_max)
            /\ RGt(call.args.R_t, Zero)
            /\ RGt(call.args.R_e, Zero)
            /\ RGt(call.args.D, Zero)
            /\ RGe(call.args.beta, Zero)
            /\ RLt(call.args.beta, R(1, 2)))
              => /\ ret.kind = "triple"
                 /\ RLe(ret.val[1], ret.val[2])
                 /\ RLe(ret.val[2], ret.val[3])

\* nut_factor has returned (1, 3/2, 5/2) for the thread frictions
\* 0 <= 0 <= 1/2 and the bearing frictions 0 <= 1/2 <= 1/2 at the lead angle
\* pi/4 and the half angle pi/3
C19_Witness ==
    /\ Called("nsts_nut_factor")
    /\ call.args.R_t = One /\ call.args.R_e = One /\ call.args.D = One
    /\ call.args.alpha = R(1, 4) /\ call.args.beta = R(1, 3)
    /\ call.args.mu_t_min = Zero /\ call.args.mu_t_typ = Zero
    /\ call.args.mu_t_max = R(1, 2)
    /\ call.args.mu_b_min = Zero /\ call.args.mu_b_typ = R(1, 2)
    /\ call.args.mu_b_max = R(1, 2)
    /\ ret = Triple(One, R(3, 2), R(5, 2))

-----------------------------------------------------------------------------
(* Legacy combined loading margins. *)

\* the interaction value of the call: R_t^2 + R_s^3 for eq59,
\* (R_t + R_b)^2 + R_s^3 for eq62
Interaction ==
    LET R_s3 == RMul(call.args.R_s, RMul(call.args.R_s, call.args.R_s))
        axial == IF call.fn = "tm_eq62"
                 THEN RAdd(call.args.R_t, call.args.R_b)
                 ELSE call.args.R_t
    IN  RAdd(RMul(axial, axial), R_s3)

\* C20: the legacy combined-loading margins report MS = 1/interaction - 1 of
\* the interaction value itself: for load ratios >= 0 with a positive
\* interaction value nasa_tm_106943.eq59 returns 1/(R_t^2 + R_s^3) - 1 and
\* eq62 returns 1/((R_t + R_b)^2 + R_s^3) - 1.
C20_LegacyMarginOfInteractionItself ==
    (/\ pc = "returned"
     /\ call.fn \in {"tm_eq59", "tm_eq62"}
     /\ RGe(call.args.R_t, Zero)
     /\ RGe(call.args.R_s, Zero)
     /\ call.fn = "tm_eq62" => RGe(call.args.R_b, Zero)
     /\ RGt(Interaction, Zero))
        => ret = Value(RSub(RDiv(One, Interaction), One))

-----------------------------------------------------------------------------
(* Purity of the formula functions. *)

\* C21: no formula operation performs I/O: after any sequence of calls to
\* the formula functions (nasa_tm_106943 eq59 and eq62, nsts_08307a
\* max_preload and min_preload among them) the output stream is unchanged,
\* that is, still empty while the caller has only called formula functions.
C21_FormulaCallsLeaveOutputUnchanged ==
    (pc \in {"idle", "returned"}) => stdout = <<>>

-----------------------------------------------------------------------------
(* Predicted preload. *)

\* what the called preload operation returns for the arguments of the call
\* with the thermal term replaced by zero
WithoutThermalTerm ==
    CASE call.fn = "nsts_max_preload" ->
             nsts_max_preload(call.args.gamma, call.args.T_max, call.args.K_typ,
                              call.args.D, Zero, call.args.K_min)
      [] call.fn = "nsts_min_preload" ->
             nsts_min_preload(call.args.gamma, call.args.T_min, call.args.K_typ,
                              call.args.T_p, call.args.D, Zero,
                              call.args.relaxation_ratio, call.args.P_loss,
                              call.args.K_max)
      [] call.fn = "std_eq1" -> std_eq1(call.args.P_pi_max, Zero)
      [] call.fn = "std_eq2" ->
             std_eq2(call.args.P_pi_min, call.args.P_pr, Zero, call.args.P_pc)
      [] call.fn = "tm_eq12" ->
             tm_eq12(call.args.T, call.args.K, call.args.D, call.args.u, Zero)
      [] call.fn = "tm_eq13" ->
             tm_eq13(call.args.T, call.args.D, call.args.K, call.args.u, Zero,
                     call.args.P_relax)

\* the thermal term of the call has the sign that its operation must reject:
\* one that would lower a maximum preload or raise a minimum preload
ThermalTermOfWrongSign ==
    CASE call.fn = "nsts_max_preload" -> RLt(call.args.P_thr_pos, Zero)
      [] call.fn = "nsts_min_preload" -> RGt(call.args.P_thr_neg, Zero)
      [] call.fn = "std_eq1" -> RLt(call.args.P_deltat_max, Zero)
      [] call.fn = "std_eq2" -> RLt(call.args.P_deltat_min, Zero)
      [] call.fn \in {"tm_eq12", "tm_eq13"} -> RLt(call.args.P_th, Zero)

\* C22: the thermal term can only raise the maximum preload and only lower
\* the minimum preload: nsts_08307a.max_preload, nasa_std_5020b.eq1 and
\* nasa_tm_106943.eq12 return at least their value with a zero thermal term,
\* nsts_08307a.min_preload, nasa_std_5020b.eq2 and nasa_tm_106943.eq13 return
\* at most that value, and a thermal term of the wrong sign is rejected.
C22_ThermalTermWidensPreloadRange ==
    /\ (pc = "returned" /\ call.fn \in {"nsts_max_preload", "std_eq1", "tm_eq12"}
          /\ ret.kind = "value")
          => /\ WithoutThermalTerm.kind = "value"
             /\ RGe(ret.val, WithoutThermalTerm.val)
    /\ (pc = "returned" /\ call.fn \in {"nsts_min_preload", "std_eq2", "tm_eq13"}
          /\ ret.kind = "value")
          => /\ WithoutThermalTerm.kind = "value"
             /\ RLe(ret.val, WithoutThermalTerm.val)
    /\ (pc = "returned"
          /\ call.fn \in {"nsts_max_preload", "std_eq1", "tm_eq12",
                          "nsts_min_preload", "std_eq2", "tm_eq13"}
          /\ ThermalTermOfWrongSign)
          => ~Returned(ret)

\* C23: the simplified preload equations are exact specialisations of the
\* general ones at u = 0.25: for K > 0 and D > 0, eq14(T, K, D) equals
\* eq12(T, K, D, u=0.25, P_th=0) = 1.25*T/(K*D), and eq16(T, K, D) equals
\* eq13mod(T, D, K, u=0.25, P_th=0, relaxation_ratio=0.05) =
\* 0.75*T/(K*D)/1.05.
C23_SimplifiedPreloadIsSpecialisation ==
    LET P_0 == RDiv(call.args.T, RMul(call.args.K, call.args.D))
        accepted == RGt(call.args.K, Zero) /\ RGt(call.args.D, Zero)
    IN  /\ (Called("tm_eq14") /\ accepted)
              => /\ ret = tm_eq12(call.args.T, call.args.K, call.args.D, R(25, 100), Zero)
                 /\ ret = Value(RMul(R(125, 100), P_0))
        /\ (Called("tm_eq16") /\ accepted)
              => /\ ret = tm_eq13mod(call.args.T, call.args.D, call.args.K,
                                     R(25, 100), Zero, R(5, 100))
                 /\ ret = Value(RDiv(RMul(R(75, 100), P_0), R(105, 100)))

\* The arguments of a min_preload call are consistent: K_typ > 0, D > 0,
\* 0 <= gamma <= 1, 0 <= T_p <= T_min, P_thr_neg <= 0, relaxation_ratio >= 0,
\* P_loss absent or >= 0, K_max absent or >= K_typ.
ConsistentMinPreload(a) ==
    /\ RGt(a.K_typ, Zero) /\ RGt(a.D, Zero)
    /\ RGe(a.gamma, Zero) /\ RLe(a.gamma, One)
    /\ RGe(a.T_p, Zero) /\ RLe(a.T_p, a.T_min)
    /\ RLe(a.P_thr_neg, Zero) /\ RGe(a.relaxation_ratio, Zero)
    /\ (a.P_loss # None => RGe(a.P_loss, Zero))
    /\ (a.K_max # None => RGe(a.K_max, a.K_typ))

\* The maximum preloads that belong to the same joint as the min_preload
\* call a: T_max >= T_min, P_thr_pos >= 0, K_min drawn from the given set.
MaxPreloadsOf(a, lowerNutFactors) ==
    { nsts_max_preload(a.gamma, T_max, a.K_typ, a.D, P_thr_pos, K_min) :
        T_max \in {t \in Torques : RGe(t, a.T_min)},
        P_thr_pos \in {p \in Diameters : RGe(p, Zero)},
        K_min \in lowerNutFactors }

\* C24: for consistent inputs (K_typ > 0, D > 0, 0 <= gamma <= 1,
\* 0 <= T_p <= T_min <= T_max, P_thr_neg <= 0 <= P_thr_pos,
\* relaxation_ratio >= 0, P_loss absent or >= 0, K_min <= K_typ <= K_max when
\* supplied) min_preload never exceeds max_preload, in every combination of
\* the typical and experimental branches.
C24_MinPreloadNeverExceedsMax ==
    (Called("nsts_min_preload") /\ ConsistentMinPreload(call.args) /\ Returned(ret))
        => \A mx \in MaxPreloadsOf(call.args,
                        {None} \cup {k \in Frictions : RLe(k, call.args.K_typ)}) :
               Returned(mx) => RLe(ret.val, mx.val)

\* C25: the nasa_tm_106943 operations that take a loading-plane factor accept
\* every n with 0 <= n <= 1 and reject every other n; for an accepted n, eq30
\* returns n*phi*P_et, the increment that nasa_std_5020b.eq8 adds to the
\* preload.
C25_LoadingPlaneFactorInUnitInterval ==
    LET n == call.args.n
        inUnit == RLe(Zero, n) /\ RLe(n, One)
    IN  /\ Called("tm_eq17")
              => /\ (inUnit /\ RGe(call.args.SF, One)) => Returned(ret)
                 /\ ~inUnit => ret = Raise("AssertionError")
        /\ Called("tm_eq30")
              => /\ inUnit => /\ ret = Value(RMul(RMul(n, call.args.phi), call.args.P_et))
                              /\ \A P_p \in Loads :
                                     std_eq8(P_p, n, call.args.phi, call.args.P_et)
                                         = Value(RAdd(P_p, ret.val))
                 /\ ~inUnit => ret = Raise("AssertionError")

\* The preload that eq13 returns when its relaxation loss is eq11 of the
\* preload m, for the arguments a of an eq13mod call.
PreloadAfterLossOf(a, m) ==
    tm_eq13(a.T, a.D, a.K, a.u, a.P_th, tm_eq11(m, a.relaxation_ratio).val)

C27_AllowableLoadInvertsBoltLoad ==
    LET a == call.args
        inUnit == RLe(Zero, a.n) /\ RLe(a.n, One)
    IN  /\ (Called("std_eq10") /\ inUnit)
              => /\ Returned(ret)
                 /\ std_eq8(a.P_p_max, a.n, a.phi, ret.val) = Value(a.P_tu_allow)
        /\ (Called("std_eq17") /\ inUnit)
              => /\ Returned(ret)
                 /\ std_eq8(a.P_p_max, a.n, a.phi, ret.val) = Value(a.P_ty_allow)

\* C28: in nsts_08307a a supplied experimental nut factor overrides the
\* typical one: with K_min given max_preload returns
\* T_max/(K_min*D) + P_thr_pos; with K_max given min_preload returns
\* (T_min - T_p)/(K_max*D) + P_thr_neg, less P_loss when P_loss is given and
\* otherwise divided by (1 + relaxation_ratio); with neither given the
\* typical values with (1 + gamma) and (1 - gamma) result; an experimental
\* nut factor <= 0 is rejected like K_typ <= 0.
C28_ExperimentalNutFactorOverrides ==
    LET a == call.args
        AfterLoss(nominal) ==
            IF a.P_loss # None
            THEN RSub(RAdd(nominal, a.P_thr_neg), a.P_loss)
            ELSE RDiv(RAdd(nominal, a.P_thr_neg), RAdd(One, a.relaxation_ratio))
    IN  /\ (/\ Called("nsts_max_preload")
            /\ RGe(a.gamma, Zero) /\ RGt(a.D, Zero) /\ RGt(a.K_typ, Zero)
            /\ RGe(a.P_thr_pos, Zero))
              => IF a.K_min = None
                 THEN ret = Value(RAdd(RDiv(RMul(RAdd(One, a.gamma), a.T_max),
                                            RMul(a.K_typ, a.D)), a.P_thr_pos))
                 ELSE IF RGt(a.K_min, Zero)
                 THEN ret = Value(RAdd(RDiv(a.T_max, RMul(a.K_min, a.D)), a.P_thr_pos))
                 ELSE ret = Raise("AssertionError")
        /\ (/\ Called("nsts_min_preload")
            /\ RGe(a.gamma, Zero) /\ RGt(a.D, Zero) /\ RGt(a.K_typ, Zero)
            /\ RLe(a.P_thr_neg, Zero) /\ RGe(a.relaxation_ratio, Zero))
              => IF a.K_max = None
                 THEN ret = Value(AfterLoss(RDiv(RMul(RSub(One, a.gamma), RSub(a.T_min, a.T_p)),
                                                 RMul(a.K_typ, a.D))))
                 ELSE IF RGt(a.K_max, Zero)
                 THEN ret = Value(AfterLoss(RDiv(RSub(a.T_min, a.T_p), RMul(a.K_max, a.D))))
                 ELSE ret = Raise("AssertionError")

\* Miner's rule: the sum over the stress levels i of n[i]/N[i].
RECURSIVE CumulativeDamage(_, _)
CumulativeDamage(n, N) ==
    IF Len(n) = 0 THEN Zero
    ELSE RAdd(CumulativeDamage(SubSeq(n, 1, Len(n) - 1), SubSeq(N, 1, Len(N) - 1)),
              RDiv(n[Len(n)], N[Len(N)]))

\* C29: for two equal-length lists n_i and N_i (all N_i > 0) eq87 returns the
\* cumulative damage, the sum of n_i[i]/N_i[i], which is 0 for empty lists.
C29_MinersRuleOnLists ==
    (/\ Called("std_eq87")
     /\ call.args.n_i.type = "list" /\ call.args.N_i.type = "list"
     /\ Len(call.args.n_i.items) = Len(call.args.N_i.items))
        => /\ ret = Value(CumulativeDamage(call.args.n_i.items, call.args.N_i.items))
           /\ (call.args.n_i.items = <<>> => ret = Value(Zero))

\* The outcome r is a returned stiffness that is finite and strictly
\* positive: pi*x/ln(y) with y > 0, y # 1 has the sign of x*(y - 1).
FinitePositiveStiffness(r) ==
    /\ r.kind = "value"
    /\ IF "pi_times" \in DOMAIN r.val
       THEN \/ RGt(r.val.pi_times, Zero) /\ RGt(r.val.over_log_of, One)
            \/ RLt(r.val.pi_times, Zero) /\ RLt(r.val.over_log_of, One)
       ELSE r.val.d # 0 /\ RGt(r.val, Zero)

\* C30: every joint stiffness returned for accepted inputs is finite and
\* strictly positive: eq44 for all E_j, D, L > 0 and eq49 for all
\* E_j, D, L, d_w > 0, including effective head diameters d_w <= D; the
\* logarithm argument is > 1 in both.
C30_JointStiffnessFinitePositive ==
    LET a == call.args
    IN  /\ (Called("tm_eq44") /\ RGt(a.E_j, Zero) /\ RGt(a.D, Zero) /\ RGt(a.L, Zero))
              => FinitePositiveStiffness(ret) /\ RGt(ret.val.over_log_of, One)
        /\ (/\ Called("tm_eq49")
            /\ RGt(a.E_j, Zero) /\ RGt(a.D, Zero) /\ RGt(a.L, Zero) /\ RGt(a.d_w, Zero))
              => FinitePositiveStiffness(ret) /\ RGt(ret.val.over_log_of, One)

====
